---------------------------- MODULE Spec2Model ----------------------------
(***************************************************************************)
(* Model of langchain/vectorstores/pinecone.py: the Pinecone vector store  *)
(* adapter (add_texts, similarity_search, similarity_search_with_score,    *)
(* from_texts, from_existing_index) together with the two collaborators it *)
(* calls: the embedding provider and the remote index service.             *)
(*                                                                         *)
(* Python objects that the code mutates in place (the caller's metadata    *)
(* dicts) live in a heap and are named by references, so that two list     *)
(* entries naming the same dict are the same object, as in Python.         *)
(***************************************************************************)
EXTENDS Integers, Sequences, FiniteSets, TLC

\* ------------------------------------------------------------------ bounds
\* the longest texts list passed to add_texts
MaxTexts == 2
\* the largest batch_size passed to from_texts
MaxBatch == 2
\* the longest texts list passed to from_texts (a last, shorter chunk needs
\* more texts than the batch size)
MaxFromTexts == 3
\* the ids add_texts may hand out in one behaviour
MaxRecords == 2
\* the largest k passed to a search
MaxK == 2

\* ------------------------------------------------------------------ values
Texts == {"a", "b"}
TextKeys == {"text", "src"}
MetaKeys == {"text", "src"}
MetaValue == "m"
Namespaces == {"", "ns"}
UserIndexNames == {"ix1", "ix2"}
UuidIndexName == "uuid4-name"
NoneHandle == "<None>"
Refs == {1, 2}

RECURSIVE SeqsUpTo(_, _)
SeqsUpTo(S, n) ==
    IF n = 0 THEN {<<>>}
    ELSE LET shorter == SeqsUpTo(S, n - 1)
         IN  shorter \cup {Append(s, x) : s \in {t \in shorter : Len(t) = n - 1}, x \in S}

Min(a, b) == IF a <= b THEN a ELSE b

Range(f) == {f[x] : x \in DOMAIN f}

\* ------------------------------------------------------------ Python dicts
EmptyDict == [k \in {} |-> MetaValue]

DictSet(d, k, v) == [x \in (DOMAIN d) \cup {k} |-> IF x = k THEN v ELSE d[x]]

DictPop(d, k) == [x \in (DOMAIN d) \ {k} |-> d[x]]

\* The metadata mappings a caller may supply: any subset of the keys,
\* the reserved key included.
CallerDicts == {[k \in D |-> MetaValue] : D \in SUBSET MetaKeys}

\* A caller's metadatas argument: <<>> (None or an empty list, both falsy)
\* or one reference per text, the first object being 1, the next new one 2;
\* a repeated reference is the same dict supplied for more than one text.
Canonical(refs) ==
    \A i \in 1..Len(refs) :
        refs[i] = 1 \/ \E j \in 1..(i - 1) : refs[j] = refs[i] - 1

MetadatasFor(n) ==
    {<<>>} \cup {refs \in [1..n -> Refs] : n > 0 /\ Canonical(refs)}

HeapsFor(refs) == [Range(refs) -> CallerDicts]

\* --------------------------------------------------- embedding provider
TextCode(t) == IF t = "a" THEN 1 ELSE 2

embed_query(text) == <<TextCode(text), 3 - TextCode(text)>>

embed_documents(lines) == [j \in 1..Len(lines) |-> embed_query(lines[j])]

\* ------------------------------------------------- remote index service
\* indexes: index name -> [dimension, vectors], its domain the existing
\* indexes; vectors is the set of stored records.
list_indexes(ixs) == DOMAIN ixs

create_index(ixs, name, dimension) ==
    [n \in (DOMAIN ixs) \cup {name} |->
        IF n = name THEN [dimension |-> dimension, vectors |-> {}] ELSE ixs[n]]

StoredRecord(v, namespace) ==
    [id |-> v.id, values |-> v.values, metadata |-> v.metadata,
     namespace |-> namespace]

\* Insert-or-update keyed by record id within the namespace.
upsert(ixs, name, vectors, namespace) ==
    LET new == {StoredRecord(vectors[i], namespace) : i \in 1..Len(vectors)}
        kept == {r \in ixs[name].vectors :
                    ~ \E s \in new : s.id = r.id /\ s.namespace = r.namespace}
    IN  [ixs EXCEPT ![name].vectors = kept \cup new]

Dot(u, v) == u[1] * v[1] + u[2] * v[2]

Match(r, q) == [id |-> r.id, score |-> Dot(q, r.values), metadata |-> r.metadata]

\* The responses the service may give to a top_k query: top_k distinct
\* records of the namespace (all of them when it holds fewer), in the order
\* the service chooses.
QueryResponses(ixs, name, q, top_k, namespace) ==
    LET recs == {r \in ixs[name].vectors : r.namespace = namespace}
        m == Min(top_k, Cardinality(recs))
        Picks(n) == {g \in [1..n -> recs] : \A i, j \in 1..n : i # j => g[i] # g[j]}
    IN  {[i \in 1..m |-> Match(g[i], q)] : g \in Picks(m)}

\* ------------------------------------------------------------------- state
VARIABLES
    indexes,    \* the remote service: index name -> [dimension, vectors]
    heap,       \* the caller's metadata dicts: reference -> dict
    adapter,    \* the adapter in use: [index, text_key]
    call,       \* the arguments of the operation last started
    calls,      \* the collaborator calls that operation has issued, in order
    result,     \* how that operation ended: returned (value) or raised (error)
    response,   \* the service's response to the last query
    nextId,     \* uuid.uuid4(): the next fresh id (a draw lost when the call
                \* raises is not counted: nothing can observe it)
    pc,         \* "idle", a position inside from_texts, or "return": the
                \* operation is at its return statement (or unwinding)
    ft          \* the locals of from_texts

vars == <<indexes, heap, adapter, call, calls, result, response, nextId, pc, ft>>

NoAdapter == [index |-> NoneHandle, text_key |-> ""]
NoCall == [op |-> "none"]
NoResult == [op |-> "none", status |-> "none"]
NoLocals == [i |-> 0]
NoHeap == [r \in {} |-> EmptyDict]

Returned(op, value) == [op |-> op, status |-> "returned", value |-> value]
Raised(op, error) == [op |-> op, status |-> "raised", error |-> error]

EmbedCall(op, arg, raised) == [op |-> op, arg |-> arg, raised |-> raised]

\* One entry of an upsert call: the tuple (id, embedding, metadata); obj is
\* the dict object the tuple holds, metadata its content when the call is made.
Doc(id, embedding, obj) == [id |-> id, values |-> embedding, obj |-> obj]

Vectors(docs, h) ==
    [i \in 1..Len(docs) |->
        [id |-> docs[i].id, values |-> docs[i].values, obj |-> docs[i].obj,
         metadata |-> h[docs[i].obj]]]

UpsertCall(index, vectors, namespace, raised) ==
    [op |-> "upsert", index |-> index, vectors |-> vectors,
     namespace |-> namespace, raised |-> raised]

\* __init__: the handle must be a pinecone Index, or ValueError is raised.
Pinecone__init__(index, text_key) ==
    IF index = NoneHandle
    THEN [raised |-> TRUE, self |-> NoAdapter]
    ELSE [raised |-> FALSE, self |-> [index |-> index, text_key |-> text_key]]

\* ------------------------------------------------------------- add_texts
NewRef(h) == Cardinality(DOMAIN h) + 1

HeapPut(h, ref, d) == [r \in (DOMAIN h) \cup {ref} |-> IF r = ref THEN d ELSE h[r]]

\* metadata[self._text_key] = text
InjectText(h, ref, text_key, text) ==
    HeapPut(h, ref, DictSet(IF ref \in DOMAIN h THEN h[ref] ELSE EmptyDict, text_key, text))

\* Mutant of add_texts_append: the id is put at the front of ids.
add_texts_prepend(st, id, embedding, obj) ==
    [st EXCEPT !.docs = Append(@, Doc(id, embedding, obj)),
               !.ids = <<id>> \o @]

\* docs.append((id, embedding, metadata)); ids.append(id)
add_texts_append(st, id, embedding, obj) ==
    [st EXCEPT !.docs = Append(@, Doc(id, embedding, obj)),
               !.ids = Append(@, id)]

\* The loop of add_texts from its i-th iteration; failAt is the iteration in
\* which the embedding function raises (0: in none).
RECURSIVE add_texts_loop(_, _, _, _, _, _, _)
add_texts_loop(i, texts, metadatas, text_key, failAt, id0, st) ==
    IF i > Len(texts) THEN st
    ELSE IF i = failAt
    THEN [st EXCEPT !.raised = TRUE,
                    !.calls = Append(@, EmbedCall("embed_query", texts[i], TRUE))]
    ELSE LET id == id0 + i - 1
             embedding == embed_query(texts[i])
             obj == IF metadatas # <<>> THEN metadatas[i] ELSE NewRef(st.heap)
             h == InjectText(st.heap, obj, text_key, texts[i])
         IN  add_texts_loop(i + 1, texts, metadatas, text_key, failAt, id0,
                [add_texts_append(st, id, embedding, obj) EXCEPT
                    !.heap = h,
                    !.calls = Append(@, EmbedCall("embed_query", texts[i], FALSE))])

\* Mutant of add_texts_upsert: what was built is sent even when the
\* embedding function raised.
add_texts_upsert_always(st, index, namespace, exists) ==
    <<UpsertCall(index, Vectors(st.docs, st.heap), namespace, ~exists)>>

\* What add_texts sends to the service once its loop has ended.
add_texts_upsert(st, index, namespace, exists) ==
    IF st.raised THEN <<>>
    ELSE <<UpsertCall(index, Vectors(st.docs, st.heap), namespace, ~exists)>>

CallerHeap(h, heap0) == [r \in DOMAIN heap0 |-> h[r]]

Generated == nextId - 1

add_texts(texts, metadatas, heap0, namespace, failAt) ==
    /\ pc = "idle"
    /\ Generated + Len(texts) <= MaxRecords
    /\ LET st == add_texts_loop(1, texts, metadatas, adapter.text_key, failAt, nextId,
                    [docs |-> <<>>, ids |-> <<>>, heap |-> heap0, calls |-> <<>>,
                     raised |-> FALSE])
           exists == adapter.index \in list_indexes(indexes)
           sends == add_texts_upsert(st, adapter.index, namespace, exists)
       IN  /\ call' = [op |-> "add_texts", texts |-> texts, metadatas |-> metadatas,
                       heap0 |-> heap0, namespace |-> namespace, before |-> indexes]
           /\ calls' = st.calls \o sends
           /\ heap' = CallerHeap(st.heap, heap0)
           /\ nextId' = IF st.raised \/ ~exists THEN nextId ELSE nextId + Len(st.ids)
           /\ indexes' = IF sends # <<>> /\ exists
                         THEN upsert(indexes, adapter.index, sends[1].vectors, namespace)
                         ELSE indexes
           /\ result' = IF st.raised THEN Raised("add_texts", "EmbeddingError")
                        ELSE IF ~exists THEN Raised("add_texts", "RemoteError")
                        ELSE Returned("add_texts", st.ids)
    /\ response' = <<>>
    /\ pc' = "return"
    /\ UNCHANGED <<adapter, ft>>

\* ----------------------------------------------------- similarity search
HasKey(matches, text_key) ==
    \A i \in 1..Len(matches) : text_key \in DOMAIN matches[i].metadata

Document(page_content, metadata) == [page_content |-> page_content, metadata |-> metadata]

\* for res in results["matches"]: ... docs.append((Document(...), res["score"]))
RECURSIVE similarity_search_with_score_docs(_, _, _)
similarity_search_with_score_docs(matches, text_key, docs) ==
    IF matches = <<>> THEN docs
    ELSE LET res == Head(matches)
             text == res.metadata[text_key]
             metadata == DictPop(res.metadata, text_key)
         IN  similarity_search_with_score_docs(Tail(matches), text_key,
                Append(docs, <<Document(text, metadata), res.score>>))

\* Mutant of similarity_search_docs: the text is read, not popped.
RECURSIVE similarity_search_docs_get(_, _, _)
similarity_search_docs_get(matches, text_key, docs) ==
    IF matches = <<>> THEN docs
    ELSE LET res == Head(matches)
         IN  similarity_search_docs_get(Tail(matches), text_key,
                Append(docs, Document(res.metadata[text_key], res.metadata)))

\* for res in results["matches"]: ... docs.append(Document(...))
RECURSIVE similarity_search_docs(_, _, _)
similarity_search_docs(matches, text_key, docs) ==
    IF matches = <<>> THEN docs
    ELSE LET res == Head(matches)
             text == res.metadata[text_key]
             metadata == DictPop(res.metadata, text_key)
         IN  similarity_search_docs(Tail(matches), text_key,
                Append(docs, Document(text, metadata)))

QueryCall(index, q, top_k, namespace, raised) ==
    [op |-> "query", index |-> index, vector |-> q, top_k |-> top_k,
     namespace |-> namespace, raised |-> raised]

\* The part both searches share: embed the query, query the index. The
\* service answers with one of its possible responses, or with an error when
\* the index does not exist.
Query(op, query, k, namespace) ==
    /\ pc = "idle"
    /\ LET q == embed_query(query)
           exists == adapter.index \in list_indexes(indexes)
       IN  /\ call' = [op |-> op, query |-> query, k |-> k, namespace |-> namespace,
                       before |-> indexes]
           /\ calls' = <<EmbedCall("embed_query", query, FALSE),
                         QueryCall(adapter.index, q, k, namespace, ~exists)>>
           /\ IF exists
              THEN response' \in QueryResponses(indexes, adapter.index, q, k, namespace)
              ELSE response' = <<>>
    /\ pc' = "return"
    /\ UNCHANGED <<indexes, heap, adapter, nextId, ft>>

similarity_search_with_score(query, k, namespace) ==
    /\ Query("similarity_search_with_score", query, k, namespace)
    /\ result' =
          IF calls'[2].raised THEN Raised("similarity_search_with_score", "RemoteError")
          ELSE IF ~HasKey(response', adapter.text_key)
          THEN Raised("similarity_search_with_score", "KeyError")
          ELSE Returned("similarity_search_with_score",
                        similarity_search_with_score_docs(response', adapter.text_key, <<>>))

similarity_search(query, k, namespace) ==
    /\ Query("similarity_search", query, k, namespace)
    /\ result' =
          IF calls'[2].raised THEN Raised("similarity_search", "RemoteError")
          ELSE IF ~HasKey(response', adapter.text_key)
          THEN Raised("similarity_search", "KeyError")
          ELSE Returned("similarity_search",
                        similarity_search_docs(response', adapter.text_key, <<>>))

\* --------------------------------------------------- from_existing_index
\* Mutant of from_existing_index: the name is looked up with list_indexes
\* first, as from_texts does, and an unknown name is refused.
from_existing_index_checked(index_name, text_key) ==
    /\ pc = "idle"
    /\ LET exists == index_name \in list_indexes(indexes)
           new == Pinecone__init__(IF exists THEN index_name ELSE NoneHandle, text_key)
       IN  IF new.raised
           THEN /\ result' = Raised("from_existing_index", "ValueError")
                /\ UNCHANGED adapter
           ELSE /\ result' = Returned("from_existing_index", new.self)
                /\ adapter' = new.self
    /\ call' = [op |-> "from_existing_index", index_name |-> index_name,
                text_key |-> text_key, before |-> indexes]
    /\ calls' = <<[op |-> "list_indexes", raised |-> FALSE]>>
    /\ response' = <<>>
    /\ pc' = "return"
    /\ UNCHANGED <<indexes, heap, nextId, ft>>

from_existing_index(index_name, text_key) ==
    /\ pc = "idle"
    /\ LET new == Pinecone__init__(index_name, text_key)
       IN  /\ adapter' = new.self
           /\ result' = Returned("from_existing_index", new.self)
    /\ call' = [op |-> "from_existing_index", index_name |-> index_name,
                text_key |-> text_key, before |-> indexes]
    /\ calls' = <<>>
    /\ response' = <<>>
    /\ pc' = "return"
    /\ UNCHANGED <<indexes, heap, nextId, ft>>

\* ------------------------------------------------------------- from_texts
\* for j, line in enumerate(lines_batch): metadata[j][text_key] = line
RECURSIVE inject_batch(_, _, _, _, _)
inject_batch(j, lines_batch, metadata, text_key, h) ==
    IF j > Len(lines_batch) THEN h
    ELSE inject_batch(j + 1, lines_batch, metadata, text_key,
                      InjectText(h, metadata[j], text_key, lines_batch[j]))

\* texts[i : i + batch_size], i counted from 0 as in the code
Slice(list, i, batch_size) == SubSeq(list, i + 1, Min(i + batch_size, Len(list)))

\* Mutant of NextStart: the loop steps by batch_size + 1.
NextStartSkips(i, batch_size) == i + batch_size + 1

\* for i in range(0, len(texts), batch_size): the start of the next chunk
NextStart(i, batch_size) == i + batch_size

\* zip(ids_batch, embeds, metadata): as long as the shortest of the three
Zip(ids_batch, embeds, metadata) ==
    [j \in 1..Min(Len(ids_batch), Min(Len(embeds), Len(metadata))) |->
        Doc(ids_batch[j], embeds[j], metadata[j])]

\* dimension=len(embeds[0])
Dimension(embeds) == Len(embeds[1])

\* index_name or str(uuid.uuid4()); "" stands for None
TargetName(index_name) == IF index_name = "" THEN UuidIndexName ELSE index_name

Raise(error) ==
    /\ result' = Raised("from_texts", error)
    /\ pc' = "return"

\* Lines 172-177: the target name, list_indexes, the handle if the index exists.
from_texts_start(in, batch_size, text_key, index_name, namespace, ok) ==
    /\ pc = "idle"
    /\ LET name == TargetName(index_name)
       IN  /\ call' = [op |-> "from_texts", texts |-> in.texts,
                       metadatas |-> in.metadatas, heap0 |-> in.heap0,
                       batch_size |-> batch_size, text_key |-> text_key,
                       index_name |-> name, namespace |-> namespace,
                       before |-> indexes, id0 |-> nextId]
           /\ calls' = <<[op |-> "list_indexes", raised |-> ~ok]>>
           /\ heap' = in.heap0
           /\ IF ok
              THEN /\ ft' = [i |-> 0,
                             index |-> IF name \in list_indexes(indexes)
                                       THEN name ELSE NoneHandle,
                             ids_batch |-> <<>>, embeds |-> <<>>, metadata |-> <<>>]
                   /\ pc' = "loop"
                   /\ result' = NoResult
              ELSE /\ ft' = NoLocals
                   /\ Raise("RemoteError")
    /\ response' = <<>>
    /\ UNCHANGED <<indexes, adapter, nextId>>

\* Lines 178-193: the next chunk, its ids, its embeddings (embed_documents),
\* its metadata with the text merged in.
from_texts_embed(ok) ==
    /\ pc = "loop"
    /\ ft.i < Len(call.texts)
    /\ LET i_end == Min(ft.i + call.batch_size, Len(call.texts))
           lines_batch == Slice(call.texts, ft.i, call.batch_size)
           ids_batch == [n \in 1..(i_end - ft.i) |-> nextId + n - 1]
           embeds == embed_documents(lines_batch)
           fresh == [n \in 1..(i_end - ft.i) |-> NewRef(heap) + n - 1]
           metadata == IF call.metadatas # <<>>
                       THEN Slice(call.metadatas, ft.i, call.batch_size)
                       ELSE fresh
           h0 == IF call.metadatas # <<>> THEN heap
                 ELSE [r \in (DOMAIN heap) \cup Range(fresh) |->
                          IF r \in DOMAIN heap THEN heap[r] ELSE EmptyDict]
       IN  /\ calls' = Append(calls, EmbedCall("embed_documents", lines_batch, ~ok))
           /\ IF ok
              THEN /\ heap' = inject_batch(1, lines_batch, metadata, call.text_key, h0)
                   /\ ft' = [ft EXCEPT !.ids_batch = ids_batch, !.embeds = embeds,
                                       !.metadata = metadata]
                   /\ pc' = IF ft.index = NoneHandle THEN "create" ELSE "upsert"
                   /\ UNCHANGED result
              ELSE /\ Raise("EmbeddingError")
                   /\ UNCHANGED <<heap, ft>>
    /\ UNCHANGED <<indexes, adapter, call, response, nextId>>

\* Lines 195-197: create the index, sized to the first embedding of the chunk.
from_texts_create(ok) ==
    /\ pc = "create"
    /\ calls' = Append(calls, [op |-> "create_index", name |-> call.index_name,
                               dimension |-> Dimension(ft.embeds), raised |-> ~ok])
    /\ IF ok
       THEN /\ indexes' = create_index(indexes, call.index_name, Dimension(ft.embeds))
            /\ ft' = [ft EXCEPT !.index = call.index_name]
            /\ pc' = "upsert"
            /\ UNCHANGED result
       ELSE /\ Raise("RemoteError")
            /\ UNCHANGED <<indexes, ft>>
    /\ UNCHANGED <<heap, adapter, call, response, nextId>>

\* Mutant of from_texts_upsert: a failed upsert is swallowed and the loop
\* goes on with the next chunk.
from_texts_upsert_continue(ok) ==
    /\ pc = "upsert"
    /\ LET to_upsert == Zip(ft.ids_batch, ft.embeds, ft.metadata)
           vectors == Vectors(to_upsert, heap)
       IN  /\ calls' = Append(calls, UpsertCall(ft.index, vectors, call.namespace, ~ok))
           /\ indexes' = IF ok THEN upsert(indexes, ft.index, vectors, call.namespace)
                         ELSE indexes
           /\ nextId' = nextId + Len(ft.ids_batch)
           /\ ft' = [ft EXCEPT !.i = NextStart(@, call.batch_size)]
           /\ heap' = CallerHeap(heap, call.heap0)
           /\ pc' = "loop"
    /\ UNCHANGED <<adapter, call, response, result>>

\* Line 199: upsert the chunk; then the loop moves on by batch_size.
from_texts_upsert(ok) ==
    /\ pc = "upsert"
    /\ LET to_upsert == Zip(ft.ids_batch, ft.embeds, ft.metadata)
           vectors == Vectors(to_upsert, heap)
       IN  /\ calls' = Append(calls, UpsertCall(ft.index, vectors, call.namespace, ~ok))
           /\ IF ok
              THEN /\ indexes' = upsert(indexes, ft.index, vectors, call.namespace)
                   /\ nextId' = nextId + Len(ft.ids_batch)
                   /\ ft' = [ft EXCEPT !.i = NextStart(@, call.batch_size)]
                   /\ heap' = CallerHeap(heap, call.heap0)
                   /\ pc' = "loop"
                   /\ UNCHANGED result
              ELSE /\ Raise("RemoteError")
                   /\ UNCHANGED <<indexes, nextId, ft, heap>>
    /\ UNCHANGED <<adapter, call, response>>

\* Line 200: return cls(index, embedding.embed_query, text_key)
from_texts_return ==
    /\ pc = "loop"
    /\ ft.i >= Len(call.texts)
    /\ LET new == Pinecone__init__(ft.index, call.text_key)
       IN  IF new.raised
           THEN /\ result' = Raised("from_texts", "ValueError")
                /\ UNCHANGED adapter
           ELSE /\ result' = Returned("from_texts", new.self)
                /\ adapter' = new.self
    /\ pc' = "return"
    /\ UNCHANGED <<indexes, heap, call, calls, response, nextId, ft>>

\* ---------------------------------------------------------- specification
Init ==
    /\ indexes = create_index([n \in {} |-> 0], "ix1", 2)
    /\ heap = NoHeap
    /\ adapter = Pinecone__init__("ix1", "text").self
    /\ call = NoCall
    /\ calls = <<>>
    /\ result = NoResult
    /\ response = <<>>
    /\ nextId = 1
    /\ pc = "idle"
    /\ ft = NoLocals

\* The arguments a caller may pass: texts, positionally aligned metadatas
\* (or none) and the dicts the metadatas name.
TextLists == SeqsUpTo(Texts, MaxTexts)

InputsOf(lists) ==
    UNION {UNION {{[texts |-> texts, metadatas |-> metadatas, heap0 |-> heap0] :
                      heap0 \in HeapsFor(metadatas)} :
                  metadatas \in MetadatasFor(Len(texts))} :
           texts \in lists}

Inputs == InputsOf(TextLists)

AddTexts ==
    /\ pc = "idle"
    /\ \E in \in Inputs, namespace \in Namespaces :
        \E failAt \in 0..Len(in.texts) :
            add_texts(in.texts, in.metadatas, in.heap0, namespace, failAt)

SimilaritySearch ==
    /\ pc = "idle"
    /\ \E query \in Texts, k \in 0..MaxK, namespace \in Namespaces :
        similarity_search(query, k, namespace)

SimilaritySearchWithScore ==
    /\ pc = "idle"
    /\ \E query \in Texts, k \in 0..MaxK, namespace \in Namespaces :
        similarity_search_with_score(query, k, namespace)

FromExistingIndex ==
    /\ pc = "idle"
    /\ \E index_name \in UserIndexNames, text_key \in TextKeys :
        from_existing_index(index_name, text_key)

\* The operation returns (or its exception leaves it): its frame is gone,
\* the remote service and the adapter stay as they are.
Return ==
    /\ pc = "return"
    /\ pc' = "idle"
    /\ heap' = NoHeap
    /\ call' = NoCall
    /\ calls' = <<>>
    /\ result' = NoResult
    /\ response' = <<>>
    /\ ft' = NoLocals
    /\ UNCHANGED <<indexes, adapter, nextId>>

Next ==
    \/ AddTexts
    \/ SimilaritySearch
    \/ SimilaritySearchWithScore
    \/ FromExistingIndex
    \/ Return

Spec == Init /\ [][Next]_vars

\* from_texts, the constructor from raw texts, is followed on its own: from a
\* service that holds one index with one record (as one add_texts leaves it)
\* and with no adapter yet.
InitFromTexts ==
    /\ indexes = upsert(create_index([n \in {} |-> 0], "ix1", 2), "ix1",
                        <<[id |-> 1, values |-> embed_query("a"),
                           metadata |-> DictSet(EmptyDict, "text", "a")]>>, "")
    /\ heap = NoHeap
    /\ adapter = NoAdapter
    /\ call = NoCall
    /\ calls = <<>>
    /\ result = NoResult
    /\ response = <<>>
    /\ nextId = 2
    /\ pc = "idle"
    /\ ft = NoLocals

FromTextsInputs == InputsOf(SeqsUpTo(Texts, MaxFromTexts))

FromTexts ==
    /\ pc = "idle"
    /\ \E in \in FromTextsInputs, batch_size \in 1..MaxBatch, text_key \in TextKeys :
        \E index_name \in UserIndexNames \cup {""}, namespace \in Namespaces :
            \E ok \in BOOLEAN :
                from_texts_start(in, batch_size, text_key, index_name, namespace, ok)

NextFromTexts ==
    \/ FromTexts
    \/ \E ok \in BOOLEAN : from_texts_embed(ok)
    \/ \E ok \in BOOLEAN : from_texts_create(ok)
    \/ \E ok \in BOOLEAN : from_texts_upsert(ok)
    \/ from_texts_return

SpecFromTexts == InitFromTexts /\ [][NextFromTexts]_vars

\* ================================================================ claims
IsUpsert(c) == c.op = "upsert"
IsEmbedDocuments(c) == c.op = "embed_documents"
IsCreateIndex(c) == c.op = "create_index"
IsBatchStep(c) == c.op \in {"embed_documents", "upsert"}
IsQuery(c) == c.op = "query"

Upserts == SelectSeq(calls, IsUpsert)
Creates == SelectSeq(calls, IsCreateIndex)

NoFailure == \A p \in 1..Len(calls) : ~calls[p].raised

EmbedsBefore(p) == Len(SelectSeq(SubSeq(calls, 1, p), IsEmbedDocuments))
UpsertsBefore(p) == Len(SelectSeq(SubSeq(calls, 1, p), IsUpsert))

RECURSIVE AllVectors(_)
AllVectors(ups) == IF ups = <<>> THEN <<>> ELSE Head(ups).vectors \o AllVectors(Tail(ups))

RECURSIVE AllLines(_)
AllLines(embs) == IF embs = <<>> THEN <<>> ELSE Head(embs).arg \o AllLines(Tail(embs))

Ceil(n, b) == (n + b - 1) \div b

\* The dict the caller supplied for the i-th text, as it was when passed.
CallerMetadata(i) ==
    IF call.metadatas # <<>> THEN call.heap0[call.metadatas[i]] ELSE EmptyDict

SameOffKey(d, e, key) == DictPop(d, key) = DictPop(e, key)

\* The i-th upserted record carries the i-th embedding and the i-th metadata.
Paired(vectors, text_key) ==
    /\ Len(vectors) = Len(call.texts)
    /\ \A i \in 1..Len(vectors) :
        /\ vectors[i].values = embed_query(call.texts[i])
        /\ call.metadatas # <<>> => vectors[i].obj = call.metadatas[i]
        /\ SameOffKey(vectors[i].metadata, CallerMetadata(i), text_key)

FromTextsRanThrough == call.op = "from_texts" /\ pc = "return" /\ NoFailure

\* C1: from_texts with n texts and batch_size b issues ceil(n/b) upserts, one
\* after another in input order, each but the last of b records and the last
\* of n - b*(ceil(n/b)-1); embed_documents and upsert alternate, so chunk N+1
\* is embedded only after chunk N's upsert; the upserted records, taken
\* together, carry for each i the i-th embedding and the i-th metadata.
C1_SequentialBatches ==
    call.op = "from_texts" =>
      LET steps == SelectSeq(calls, IsBatchStep)
          n == Len(call.texts)
          b == call.batch_size
      IN  /\ \A p \in 1..Len(steps) :
                steps[p].op = IF p % 2 = 1 THEN "embed_documents" ELSE "upsert"
          /\ \A c \in 1..Len(Upserts) :
                Len(Upserts[c].vectors) = IF c < Ceil(n, b) THEN b ELSE n - b * (Ceil(n, b) - 1)
          /\ FromTextsRanThrough =>
                /\ Len(Upserts) = Ceil(n, b)
                /\ AllLines(SelectSeq(calls, IsEmbedDocuments)) = call.texts
                /\ Paired(AllVectors(Upserts), call.text_key)

C1_Witness ==
    /\ FromTextsRanThrough
    /\ Len(call.texts) = 3
    /\ call.batch_size = 2
    /\ call.metadatas # <<>>
    /\ Len(Upserts) = 2
    /\ Len(Upserts[1].vectors) = 2
    /\ Len(Upserts[2].vectors) = 1

\* C2: when the target index is not listed, create_index is called exactly
\* once in the call, after the first embed_documents and before the first
\* upsert, with the length of the first embedding; when it is listed,
\* create_index is never called.
C2_CreatesIndexOnce ==
    FromTextsRanThrough =>
      IF call.index_name \in list_indexes(call.before)
      THEN Creates = <<>>
      ELSE /\ Len(Creates) = 1
           /\ Creates[1].dimension = Len(embed_query(call.texts[1]))
           /\ \E p \in 1..Len(calls) :
                /\ IsCreateIndex(calls[p])
                /\ EmbedsBefore(p) = 1
                /\ UpsertsBefore(p) = 0

\* C8: when every collaborator call succeeds, from_texts returns an adapter
\* bound to the target index with the given text key, and that index exists
\* remotely; for every texts list, the empty one included.
C8_ReturnsBoundAdapter ==
    FromTextsRanThrough =>
      /\ result = Returned("from_texts", [index |-> call.index_name, text_key |-> call.text_key])
      /\ adapter = result.value
      /\ call.index_name \in list_indexes(indexes)

FailedStep(p) == calls[p].raised /\ IsBatchStep(calls[p])

StoredOf(vectors, namespace) == {StoredRecord(vectors[i], namespace) : i \in 1..Len(vectors)}

VectorsIn(ixs, name) == IF name \in DOMAIN ixs THEN ixs[name].vectors ELSE {}

\* C10: if embed_documents or upsert fails on chunk m of from_texts, the error
\* reaches the caller, no adapter is returned, no call follows the failed one,
\* and the index holds what it held before plus exactly the records of chunks
\* 1..m-1; an index this call created remains.
C10_NoRetryNoRollback ==
    (call.op = "from_texts" /\ \E p \in 1..Len(calls) : FailedStep(p)) =>
      LET m == Len(SelectSeq(calls, IsEmbedDocuments))
          done == SelectSeq(SubSeq(calls, 1, Len(calls) - 1), IsUpsert)
          sentSoFar == AllVectors(done)
          name == call.index_name
      IN  /\ FailedStep(Len(calls))
          /\ \A p \in 1..(Len(calls) - 1) : ~calls[p].raised
          /\ pc = "return"
          /\ result = Raised("from_texts", IF IsUpsert(calls[Len(calls)])
                                           THEN "RemoteError" ELSE "EmbeddingError")
          /\ adapter = NoAdapter
          /\ Len(done) = m - 1
          /\ Len(sentSoFar) = Min((m - 1) * call.batch_size, Len(call.texts))
          /\ \A i \in 1..Len(sentSoFar) : sentSoFar[i].values = embed_query(call.texts[i])
          /\ VectorsIn(indexes, name) =
                VectorsIn(call.before, name) \cup StoredOf(sentSoFar, call.namespace)
          /\ Cardinality(StoredOf(sentSoFar, call.namespace) \ VectorsIn(call.before, name))
                = Len(sentSoFar)
          /\ (Creates # <<>>) => name \in list_indexes(indexes)
          /\ \A other \in (DOMAIN call.before) \ {name} :
                other \in DOMAIN indexes /\ indexes[other] = call.before[other]

C10_Witness ==
    /\ call.op = "from_texts"
    /\ pc = "return"
    /\ Len(calls) = 6
    /\ IsCreateIndex(calls[3]) /\ ~calls[3].raised
    /\ IsUpsert(calls[4]) /\ ~calls[4].raised
    /\ IsUpsert(calls[6]) /\ calls[6].raised
    /\ call.index_name \in list_indexes(indexes)
    /\ Cardinality(indexes[call.index_name].vectors) = call.batch_size

AddTextsAtReturn == call.op = "add_texts" /\ pc = "return"

EmbeddingRaised == \E p \in 1..Len(calls) : calls[p].op = "embed_query" /\ calls[p].raised

Distinct(ids) == \A i, j \in 1..Len(ids) : i # j => ids[i] # ids[j]

\* C3: for a non-empty list of texts (embedding and service succeeding),
\* add_texts returns one id per text, in input order, and sends all records
\* in exactly one upsert call in the given namespace; the i-th record is
\* (i-th returned id, embedding of the i-th text, i-th metadata).
C3_OneIdPerTextOneUpsert ==
    (AddTextsAtReturn /\ NoFailure /\ call.texts # <<>>) =>
      /\ result.status = "returned"
      /\ Len(result.value) = Len(call.texts)
      /\ Distinct(result.value)
      /\ Len(Upserts) = 1
      /\ Upserts[1].namespace = call.namespace
      /\ Upserts[1].index = adapter.index
      /\ Paired(Upserts[1].vectors, adapter.text_key)
      /\ [i \in 1..Len(Upserts[1].vectors) |-> Upserts[1].vectors[i].id] = result.value
      /\ VectorsIn(indexes, adapter.index) =
            VectorsIn(call.before, adapter.index)
                \cup StoredOf(Upserts[1].vectors, call.namespace)

C3_Witness ==
    /\ AddTextsAtReturn
    /\ result.status = "returned"
    /\ Len(call.texts) = 2
    /\ call.texts[1] # call.texts[2]
    /\ call.metadatas # <<>>
    /\ call.metadatas[1] # call.metadatas[2]
    /\ call.namespace = "ns"

\* The text the p-th record of the c-th upsert call was made from.
SourceText(c, p) ==
    call.texts[(IF call.op = "from_texts" THEN (c - 1) * call.batch_size ELSE 0) + p]

UpsertTextKey == IF call.op = "from_texts" THEN call.text_key ELSE adapter.text_key

\* C4: every record upserted by add_texts or from_texts has, when the upsert
\* is issued, metadata[textKey] equal to the text the record was made from,
\* whatever the caller supplied, the same dict supplied for several texts
\* included.
C4_TextKeyHoldsSourceText ==
    call.op \in {"add_texts", "from_texts"} =>
      \A c \in 1..Len(Upserts) :
        \A p \in 1..Len(Upserts[c].vectors) :
          LET metadata == Upserts[c].vectors[p].metadata
          IN  /\ UpsertTextKey \in DOMAIN metadata
              /\ metadata[UpsertTextKey] = SourceText(c, p)

SearchReturned ==
    /\ call.op \in {"similarity_search", "similarity_search_with_score"}
    /\ pc = "return"
    /\ result.status = "returned"

\* C5: similarity_search returns at most k documents, in the order of the
\* matches in the service's response; similarity_search_with_score returns,
\* for the same response, the same documents in the same order, each with the
\* score the service reported for that match.
C5_SameDocumentsSameOrder ==
    SearchReturned =>
      LET plain == IF call.op = "similarity_search" THEN result.value
                   ELSE similarity_search_docs(response, adapter.text_key, <<>>)
          scored == IF call.op = "similarity_search_with_score" THEN result.value
                    ELSE similarity_search_with_score_docs(response, adapter.text_key, <<>>)
      IN  /\ Len(result.value) <= call.k
          /\ Len(plain) = Len(response)
          /\ Len(scored) = Len(response)
          /\ \A i \in 1..Len(response) :
                /\ scored[i][1] = plain[i]
                /\ scored[i][2] = response[i].score
                /\ plain[i].page_content = response[i].metadata[adapter.text_key]

C5_Witness ==
    /\ SearchReturned
    /\ call.op = "similarity_search"
    /\ call.k = 2
    /\ Len(result.value) = 2
    /\ result.value[1] # result.value[2]
    /\ response[1].score < response[2].score

\* C6: after add_texts stores a text with some metadata, a similarity_search
\* whose matches include that record yields a Document whose content is the
\* text and whose metadata is the caller's metadata without textKey.
C6_RoundTrip ==
    (AddTextsAtReturn /\ result.status = "returned") =>
      \A query \in Texts, k \in 0..MaxK :
        \A matches \in QueryResponses(indexes, adapter.index, embed_query(query), k,
                                      call.namespace) :
          \A j \in 1..Len(matches), i \in 1..Len(call.texts) :
            (HasKey(matches, adapter.text_key) /\ matches[j].id = result.value[i]) =>
              similarity_search_docs(matches, adapter.text_key, <<>>)[j]
                = Document(call.texts[i], DictPop(CallerMetadata(i), adapter.text_key))

\* C7: from_existing_index makes no call to the service and returns an
\* adapter whether or not the index exists; with an index that does not
\* exist, the failure comes from the service, on the first query or upsert
\* made through the adapter.
C7_NoExistenceCheck ==
    /\ (call.op = "from_existing_index" /\ pc = "return") =>
          /\ calls = <<>>
          /\ indexes = call.before
          /\ result = Returned("from_existing_index",
                               [index |-> call.index_name, text_key |-> call.text_key])
          /\ adapter = result.value
    /\ (pc = "return" /\ call.op # "from_existing_index"
            /\ adapter.index \notin list_indexes(indexes)) =>
          /\ result.status = "raised"
          /\ indexes = call.before
          /\ \/ EmbeddingRaised /\ result.error = "EmbeddingError"
             \/ /\ calls[Len(calls)].op \in {"query", "upsert"}
                /\ calls[Len(calls)].raised
                /\ Len(SelectSeq(calls, IsUpsert)) + Len(SelectSeq(calls, IsQuery)) = 1
                /\ result.error = "RemoteError"

C7_Witness ==
    /\ pc = "return"
    /\ call.op = "similarity_search"
    /\ adapter.index = "ix2"
    /\ "ix2" \notin list_indexes(indexes)
    /\ result = Raised("similarity_search", "RemoteError")

\* C9: if the embedding function raises during add_texts, the error reaches
\* the caller, no ids are returned, no upsert is issued and the remote index
\* is as it was before the call, whichever text the failure is on.
C9_EmbeddingFailureLeavesIndex ==
    (AddTextsAtReturn /\ EmbeddingRaised) =>
      /\ result = Raised("add_texts", "EmbeddingError")
      /\ Upserts = <<>>
      /\ indexes = call.before
      /\ calls[Len(calls)].raised

C9_Witness ==
    /\ AddTextsAtReturn
    /\ adapter.index \in list_indexes(indexes)
    /\ Len(call.texts) = 2
    /\ Len(calls) = 2
    /\ ~calls[1].raised
    /\ calls[2].raised

============================================================================
